---- MODULE Spec2Model ----
(***************************************************************************)
(* A model of the neural-network visualisation: the graph / flow-path      *)
(* builder and pulse waves of NeuralNetwork, the particle pools of         *)
(* ParticleSystem and the start-up sequence of NeuralNetworkApp.           *)
(*                                                                         *)
(* Units.  Time is counted in ticks of 0.05 s (the 0.1 s frame cap is 2    *)
(* ticks).  Particle speeds are in 1/100, animationSpeed in 1/10, so a     *)
(* path progress of 1.0 is 20 * 100 * 10 = 20000 progress units.  Burst    *)
(* lifetimes and pulse lives are in ticks (1.0 = 20).  A pulse radius is   *)
(* in 1/20 length units, a pulse intensity in 1/60.  Plane coordinates     *)
(* are in 1e-4 length units.  Array indices are 0-based as in the source;  *)
(* element k of a JavaScript array is element k+1 of the sequence.         *)
(*                                                                         *)
(* Purely visual attributes (colours, sizes, shader uniforms, the burst    *)
(* sub-type) take no part in any transition below and are left out.        *)
(***************************************************************************)
EXTENDS Integers, Sequences, FiniteSets, TLC

VARIABLES
    \* ---- NeuralNetwork
    netInited,      \* init() has run to completion
    netDisposed,    \* this.disposed
    nodes,          \* this.nodes: sequence of [nodeId, position]
    nodePositions,  \* this.nodePositions
    edges,          \* this.edges: sequence of [start, end]
    flowPaths,      \* this.flowPaths, the array ParticleSystem shares by reference
    pulseWaves,     \* this.pulseWaves: sequence of [id, origin, radius, speed, intensity, life]
    pulseSeq,       \* number of triggerPulse calls so far (names the waves)
    netParams,      \* this.params of the network
    \* ---- ParticleSystem
    psState,        \* "none" | "live" | "failed" (the constructor threw)
    psDisposed,     \* dispose() has run
    psParams,       \* this.params: [animationSpeed, particleCount]
    psTime,         \* this.time
    flowIdx,        \* pathIndex attribute, per flow particle
    flowProg,       \* pathProgress attribute
    flowSpeed,      \* speed attribute
    flowPos,        \* position attribute
    trails,         \* this.trails: sequence of [positions, active, pathIndex, progress, speed]
    trailBufPos,    \* trail geometry position attribute, per trail a ring
    trailAlpha,     \* trail geometry alpha attribute, per trail a ring
    burstLife,      \* burst lifetime attribute
    burstPos,       \* burst position attribute
    burstVel,       \* burst velocity attribute
    ambientPhase,   \* ambient pool: phase attribute, one entry per particle
    particleGroups, \* this.particleGroups
    sceneObjs,      \* objects currently in the scene
    \* ---- NeuralNetworkApp
    appPhase,       \* "start" | "running" | "error" | "off"
    paused,         \* this.paused
    hostPaused,     \* whether the last 'pause' / 'resume' message handled was 'pause'
    clockDelta,     \* time since the last clock.getDelta(), in ticks
    \* ---- bookkeeping
    op,             \* the operation that produced this state: [name, arg]
    err,            \* that operation threw
    res,            \* the ResourceManager: [textures, pending, disposed]
    budget          \* what this run may still do: [ticks, bursts, acts, pulses, counts]

vars == << netInited, netDisposed, nodes, nodePositions, edges, flowPaths, pulseWaves, pulseSeq,
           netParams, clockDelta,
           psState, psDisposed, psParams, psTime, flowIdx, flowProg, flowSpeed,
           flowPos, trails, trailBufPos, trailAlpha, burstLife, burstPos, burstVel,
           ambientPhase, particleGroups, sceneObjs, appPhase, paused, hostPaused, op, err, res, budget >>

netVars == << netInited, netDisposed, nodes, nodePositions, edges, flowPaths, pulseWaves, pulseSeq,
              netParams >>
psVars  == << psState, psDisposed, psParams, psTime, flowIdx, flowProg, flowSpeed,
              flowPos, trails, trailBufPos, trailAlpha, burstLife, burstPos, burstVel,
              ambientPhase, particleGroups >>
appVars == << appPhase, paused, hostPaused, clockDelta >>

(***************************************************************************)
(* Helpers                                                                 *)
(***************************************************************************)
Min(a, b) == IF a < b THEN a ELSE b
Max(a, b) == IF a > b THEN a ELSE b

Range(s) == { s[i] : i \in DOMAIN s }

Zero3 == << 0, 0, 0 >>

Abs(a) == IF a < 0 THEN -a ELSE a

(***************************************************************************)
(* Vectors are triples of integers.                                        *)
(***************************************************************************)
VAdd(a, b) == << a[1] + b[1], a[2] + b[2], a[3] + b[3] >>
VSub(a, b) == << a[1] - b[1], a[2] - b[2], a[3] - b[3] >>
\* Vector3.lerpVectors(a, b, 0.5): a + (b - a) * 0.5, rounded down to the grid.
LerpHalf(a, b) == << a[1] + (b[1] - a[1]) \div 2,
                     a[2] + (b[2] - a[2]) \div 2,
                     a[3] + (b[3] - a[3]) \div 2 >>
\* squared distance, in 1e-2 length units (the products stay within 32 bits)
DistSq(a, b) ==
    LET d(k) == (a[k] - b[k]) \div 100
    IN  d(1) * d(1) + d(2) * d(2) + d(3) * d(3)

(***************************************************************************)
(* Program constants, in the units of the header.                          *)
(***************************************************************************)
ProgressOne == 20000   \* the 1 of "pathProgress > 1" and "trail.progress > 1"
MaxDelta == 2          \* Math.min(clock.getDelta(), 0.1): 0.1 s
OctagonSides == 8      \* octagonVertices holds 8 vertices
maxPulseWaves == 10    \* this.maxPulseWaves
PulseLife == 80        \* life: 4 (seconds)
PulseSpeed == 8        \* speed: 8
PulseIntensity == 90   \* intensity: 1.5
PulseDivisor == 3      \* wave.life / 3
BurstLife == 20        \* lifetimes.array[i] = 1.0
BurstDecay == 2        \* deltaTime * 2
NoOffset == -1         \* a position written by the constructor, without the time offset

(***************************************************************************)
(* Bounds of the model.  The pools of the source hold 500 burst particles  *)
(* (30 per burst), 50 trails of 20 ring slots; the model keeps the         *)
(* algorithms and shrinks the pools.                                       *)
(***************************************************************************)
burstCount == 3        \* pool capacity (500 in the source)
burstSize == 2         \* particles per burst (30 in the source)
trailCount == 1        \* trails (50 in the source)
trailLength == 2       \* ring slots per trail (20 in the source)
MaxTicks == 5          \* update calls explored in one run
MaxBurstTicks == 3     \* update calls explored in a run of bursts
MaxBursts == 3         \* triggerBurst calls explored in one run
MaxActs == 1           \* trail activations explored in one run
MaxLifeTicks == 2      \* update calls in a run of the whole life cycle
MaxLifeBursts == 1     \* triggerBurst calls in a run of the whole life cycle
MaxPulses == 11        \* triggerPulse calls explored in a capacity run
MaxCapTicks == 2       \* update calls explored in a capacity run
MaxPulseTicks == 42    \* update calls explored in a pulse-life run
MaxBuildTicks == 2     \* update calls explored after a build
MaxPoolTicks == 2       \* update calls explored in a pool run
MaxPoolBursts == 2      \* triggerBurst calls explored in a pool run
MaxLiveBursts == 3     \* triggerBurst calls explored under an unending frame loop
MaxLivePulses == 2     \* triggerPulse calls explored under an unending frame loop
MaxTrailTicks == 70    \* frames explored over the life of a trail (67 frames of 0.1 s)
MaxTrailActs == 2      \* trail activations explored over the life of a trail
MaxLoads == 2          \* loads of one texture name in flight at a time
MaxPauseTicks == 2     \* frames explored between pause and visibility events
MaxAppTicks == 2       \* frames explored after start-up

(***************************************************************************)
(* NeuralNetwork: the octagon and the curves.                              *)
(***************************************************************************)
\* createAdvancedOctagonStructure: vertex i at angle i * 2 pi / 8, radius 8.
octagonVertices ==
    << << 80000, 0, 0 >>,  << 56569, 56569, 0 >>,   << 0, 80000, 0 >>,
       << -56569, 56569, 0 >>, << -80000, 0, 0 >>,  << -56569, -56569, 0 >>,
       << 0, -80000, 0 >>, << 56569, -56569, 0 >> >>

\* Math.sin(i * 0.5) * 0.5 for side i = 0..7.
SideZOffset == << 0, 2397, 4207, 4987, 4546, 2992, 706, -1754 >>

(***************************************************************************)
(* THREE.CatmullRomCurve3(points).getPoint(t) for an open curve, at        *)
(* t = h / 2 (h = 0, 1, 2).  p = (l - 1) * t; intPoint = floor(p);         *)
(* weight = p - intPoint; at the last point intPoint = l - 2, weight = 1.  *)
(* The segment's cubic is c0 + c1 w + c2 w^2 + c3 w^3 with c0 = x1,        *)
(* c1 = t1, c2 = -3 x1 + 3 x2 - 2 t1 - t2, c3 = 2 x1 - 2 x2 + t1 + t2.     *)
(* The tangents t1, t2 (centripetal in the library) multiply powers of     *)
(* w only; the uniform ones stand in for them here.                        *)
(***************************************************************************)
CubicCalc(x1, x2, t1, t2, w) ==
    LET c0 == x1
        c1 == t1
        c2 == -3 * x1 + 3 * x2 - 2 * t1 - t2
        c3 == 2 * x1 - 2 * x2 + t1 + t2
    IN  c0 + c1 * w + c2 * w * w + c3 * w * w * w

CurveSegment(l, h) ==
    \* [intPoint, weight] for t = h / 2 on a curve of l points (0-based intPoint)
    LET p2 == (l - 1) * h          \* 2 p
        ip == p2 \div 2
        wt == p2 % 2               \* 2 * weight
    IN  IF wt = 0 /\ ip = l - 1 THEN [intPoint |-> l - 2, weight |-> 1]
        ELSE [intPoint |-> ip, weight |-> wt \div 2]

getPoint(points, h) ==
    LET l   == Len(points)
        seg == CurveSegment(l, h)
        ip  == seg.intPoint
        p1  == points[ip + 1]
        p2  == points[ip + 2]
        p0  == IF ip > 0 THEN points[ip] ELSE VAdd(VSub(points[1], points[2]), points[1])
        p3  == IF ip + 2 < l THEN points[ip + 3]
               ELSE VAdd(VSub(points[l], points[l - 1]), points[l])
        co(k) == CubicCalc(p1[k], p2[k], (p2[k] - p0[k]) \div 2, (p3[k] - p1[k]) \div 2,
                           seg.weight)
    IN  << co(1), co(2), co(3) >>

\* a curve whose control points end at the jittered midpoint
curveEndsAtMid(start, end, jitter) ==
    << start, end, VAdd(LerpHalf(start, end), jitter) >>

\* new THREE.CatmullRomCurve3([start, mid + jitter, end]) of createFlowEdge
FlowEdgeCurve(start, end, jitter) ==
    << start, VAdd(LerpHalf(start, end), jitter), end >>

\* an entry that carries isMain: false
flowEdgeFlagged(start, end, jitter) ==
    [ curve     |-> FlowEdgeCurve(start, end, jitter),
      direction |-> VSub(end, start),
      lengthSq  |-> DistSq(start, end),
      isMain    |-> "false",
      start     |-> start,
      end       |-> end ]

\* the entry createFlowEdge pushes on flowPaths (it sets no isMain)
createFlowEdge(start, end, jitter) ==
    [ curve     |-> FlowEdgeCurve(start, end, jitter),
      direction |-> VSub(end, start),
      lengthSq  |-> DistSq(start, end),
      isMain    |-> "undefined",
      start     |-> start,
      end       |-> end ]

\* the entry createFlowPaths pushes for octagon side i (0-based)
BoundaryPath(i) ==
    LET current == octagonVertices[i + 1]
        next    == octagonVertices[((i + 1) % OctagonSides) + 1]
    IN  [ curve     |-> << current,
                           VAdd(LerpHalf(current, next), << 0, 0, SideZOffset[i + 1] >>),
                           next >>,
          direction |-> VSub(next, current),
          lengthSq  |-> DistSq(current, next),
          isMain    |-> "true",
          start     |-> current,
          end       |-> next ]

createFlowPaths == [ i \in 1..OctagonSides |-> BoundaryPath(i - 1) ]

(***************************************************************************)
(* NeuralNetwork.createInternalNetwork.  Its random draws and the result   *)
(* of the Delaunator library are the input of the build:                   *)
(*   points     the generated 2D points, in generation order               *)
(*   zs         the random z of the node created at each point             *)
(*   triangles  delaunay.triangles: point indices, three per triangle      *)
(*   jits       the random midpoint jitter of each created edge            *)
(***************************************************************************)
\* Number.prototype.toFixed(3): sign kept, magnitude rounded to 1e-3
toFixed3(v) == [ neg |-> v < 0, n |-> (Abs(v) + 5) \div 10 ]

PositionKey(pt) == << toFixed3(pt[1]), toFixed3(pt[2]) >>

\* uniquePositions: the first point of each key, with its index in points,
\* in the order of first occurrence
uniquePositions(inp) ==
    LET n     == Len(inp.points)
        key   == [ i \in 1..n |-> PositionKey(inp.points[i]) ]
        first == { i \in 1..n : \A j \in 1..(i - 1) : key[j] # key[i] }
        rank  == [ i \in 1..n |-> Cardinality({ k \in first : k <= i }) ]
        at    == [ r \in 1..Cardinality(first) |-> CHOOSE i \in first : rank[i] = r ]
    IN  [ r \in 1..Cardinality(first) |->
            [ nodeId   |-> at[r] - 1,
              position |-> << inp.points[at[r]][1], inp.points[at[r]][2], inp.zs[at[r]] >> ] ]

\* a side kept in the orientation the triangle lists it in
orderedSide(triangles, k) ==
    LET i == 3 * (k \div 3)
        j == k % 3
    IN  << triangles[i + j + 1], triangles[i + ((j + 1) % 3) + 1] >>

\* the k-th pair (0-based) of the triangle list: side j of triangle i
TriangleSide(triangles, k) ==
    LET i == 3 * (k \div 3)
        j == k % 3
        a == triangles[i + j + 1]
        b == triangles[i + ((j + 1) % 3) + 1]
    IN  << Min(a, b), Max(a, b) >>

\* edgeSet: the "min-max" keys in first-insertion order
RECURSIVE edgeSet(_, _, _)
edgeSet(triangles, k, acc) ==
    IF k >= Len(triangles) THEN acc
    ELSE LET e == TriangleSide(triangles, k)
         IN  IF e \in Range(acc) THEN edgeSet(triangles, k + 1, acc)
             ELSE edgeSet(triangles, k + 1, Append(acc, e))

\* edgeSet.forEach: one flow path per edge whose two points exist
RECURSIVE structuralPaths(_, _, _, _)
structuralPaths(inp, es, k, acc) ==
    IF k > Len(es) THEN acc
    ELSE LET a == es[k][1]
             b == es[k][2]
         IN  IF a < Len(inp.points) /\ b < Len(inp.points)
             THEN structuralPaths(inp, es, k + 1,
                     Append(acc, createFlowEdge(
                         << inp.points[a + 1][1], inp.points[a + 1][2], 0 >>,
                         << inp.points[b + 1][1], inp.points[b + 1][2], 0 >>,
                         inp.jits[k])))
             ELSE structuralPaths(inp, es, k + 1, acc)

createInternalNetwork(inp) ==
    LET ns == uniquePositions(inp)
        ps == structuralPaths(inp, edgeSet(inp.triangles, 0, << >>), 1, << >>)
    IN  [ nodes |-> ns,
          nodePositions |-> [ i \in DOMAIN ns |-> ns[i].position ],
          edges |-> [ i \in DOMAIN ps |-> [ start |-> ps[i].start, end |-> ps[i].end ] ],
          flowPaths |-> ps ]

\* boundary paths pushed first
boundaryFirst(structural, boundary) == boundary \o structural

\* the order in which init() fills flowPaths: createInternalNetwork, then createFlowPaths
InitFlowPaths(structural, boundary) == structural \o boundary

(***************************************************************************)
(* The points createInternalNetwork generates, in the order it pushes      *)
(* them: four concentric rings, two projections of each octagon vertex,    *)
(* then the random points.  Plane coordinates are in 1e-4.                 *)
(***************************************************************************)
\* nodeCount = Math.min(Math.floor(this.params.particleCount / 20), 200)
nodeCount(particleCount) == Min(particleCount \div 20, 200)

\* the ring points, ring 1 to 4 with 8 * ring points each on radius
\* (ring / 4) * innerRadius at angle (i / pointsInRing) * 2 PI + jitter,
\* for the jitter (Math.random() - 0.5) * 0.5 of two draws:
\* "mid" is Math.random() = 0.5 at every point, "low" is Math.random() = 0
RingJitters == { "mid", "low" }

RingPointsMid ==
    << << 15000, 0 >>, << 10607, 10607 >>, << 0, 15000 >>, << -10607, 10607 >>,
       << -15000, 0 >>, << -10607, -10607 >>, << 0, -15000 >>, << 10607, -10607 >>,
       << 30000, 0 >>, << 27716, 11481 >>, << 21213, 21213 >>, << 11481, 27716 >>,
       << 0, 30000 >>, << -11481, 27716 >>, << -21213, 21213 >>, << -27716, 11481 >>,
       << -30000, 0 >>, << -27716, -11481 >>, << -21213, -21213 >>, << -11481, -27716 >>,
       << 0, -30000 >>, << 11481, -27716 >>, << 21213, -21213 >>, << 27716, -11481 >>,
       << 45000, 0 >>, << 43467, 11647 >>, << 38971, 22500 >>, << 31820, 31820 >>,
       << 22500, 38971 >>, << 11647, 43467 >>, << 0, 45000 >>, << -11647, 43467 >>,
       << -22500, 38971 >>, << -31820, 31820 >>, << -38971, 22500 >>, << -43467, 11647 >>,
       << -45000, 0 >>, << -43467, -11647 >>, << -38971, -22500 >>, << -31820, -31820 >>,
       << -22500, -38971 >>, << -11647, -43467 >>, << 0, -45000 >>, << 11647, -43467 >>,
       << 22500, -38971 >>, << 31820, -31820 >>, << 38971, -22500 >>, << 43467, -11647 >>,
       << 60000, 0 >>, << 58847, 11705 >>, << 55433, 22961 >>, << 49888, 33334 >>,
       << 42426, 42426 >>, << 33334, 49888 >>, << 22961, 55433 >>, << 11705, 58847 >>,
       << 0, 60000 >>, << -11705, 58847 >>, << -22961, 55433 >>, << -33334, 49888 >>,
       << -42426, 42426 >>, << -49888, 33334 >>, << -55433, 22961 >>, << -58847, 11705 >>,
       << -60000, 0 >>, << -58847, -11705 >>, << -55433, -22961 >>, << -49888, -33334 >>,
       << -42426, -42426 >>, << -33334, -49888 >>, << -22961, -55433 >>, << -11705, -58847 >>,
       << 0, -60000 >>, << 11705, -58847 >>, << 22961, -55433 >>, << 33334, -49888 >>,
       << 42426, -42426 >>, << 49888, -33334 >>, << 55433, -22961 >>, << 58847, -11705 >> >>

RingPointsLow ==
    << << 14534, -3711 >>, << 12901, 7653 >>, << 3711, 14534 >>, << -7653, 12901 >>,
       << -14534, 3711 >>, << -12901, -7653 >>, << -3711, -14534 >>, << 7653, -12901 >>,
       << 29067, -7422 >>, << 29695, 4266 >>, << 25802, 15306 >>, << 17981, 24014 >>,
       << 7422, 29067 >>, << -4266, 29695 >>, << -15306, 25802 >>, << -24014, 17981 >>,
       << -29067, 7422 >>, << -29695, -4266 >>, << -25802, -15306 >>, << -17981, -24014 >>,
       << -7422, -29067 >>, << 4266, -29695 >>, << 15306, -25802 >>, << 24014, -17981 >>,
       << 43601, -11133 >>, << 44997, 531 >>, << 43326, 12159 >>, << 38703, 22958 >>,
       << 31442, 32193 >>, << 22039, 39234 >>, << 11133, 43601 >>, << -531, 44997 >>,
       << -12159, 43326 >>, << -22958, 38703 >>, << -32193, 31442 >>, << -39234, 22039 >>,
       << -43601, 11133 >>, << -44997, -531 >>, << -43326, -12159 >>, << -38703, -22958 >>,
       << -31442, -32193 >>, << -22039, -39234 >>, << -11133, -43601 >>, << 531, -44997 >>,
       << 12159, -43326 >>, << 22958, -38703 >>, << 32193, -31442 >>, << 39234, -22039 >>,
       << 58134, -14844 >>, << 59914, -3217 >>, << 59390, 8533 >>, << 56584, 19955 >>,
       << 51604, 30611 >>, << 44640, 40090 >>, << 35961, 48029 >>, << 25901, 54122 >>,
       << 14844, 58134 >>, << 3217, 59914 >>, << -8533, 59390 >>, << -19955, 56584 >>,
       << -30611, 51604 >>, << -40090, 44640 >>, << -48029, 35961 >>, << -54122, 25901 >>,
       << -58134, 14844 >>, << -59914, 3217 >>, << -59390, -8533 >>, << -56584, -19955 >>,
       << -51604, -30611 >>, << -44640, -40090 >>, << -35961, -48029 >>, << -25901, -54122 >>,
       << -14844, -58134 >>, << -3217, -59914 >>, << 8533, -59390 >>, << 19955, -56584 >>,
       << 30611, -51604 >>, << 40090, -44640 >>, << 48029, -35961 >>, << 54122, -25901 >> >>

ringPoints(jitter) == IF jitter = "mid" THEN RingPointsMid ELSE RingPointsLow

\* vertex.x * 0.7, vertex.x * 0.4: a coordinate times tenths / 10
Scale(v, tenths) == IF v < 0 THEN -(((-v) * tenths) \div 10) ELSE (v * tenths) \div 10

\* octagonVertices.forEach: the 0.7 and the 0.4 projection of each vertex
vertexPoints ==
    [ k \in 1..(2 * OctagonSides) |->
        LET vertex == octagonVertices[(k + 1) \div 2]
            tenths == IF k % 2 = 1 THEN 7 ELSE 4
        IN  << Scale(vertex[1], tenths), Scale(vertex[2], tenths) >> ]

\* outward unit normals (1e-4) of the sides of the octagon isInsideOctagon tests:
\* the side of segment k is at distance octagonRadius from the centre
OctagonNormals ==
    << << 9239, 3827 >>, << 3827, 9239 >>, << -3827, 9239 >>, << -9239, 3827 >>,
       << -9239, -3827 >>, << -3827, -9239 >>, << 3827, -9239 >>, << 9239, -3827 >> >>

\* distance <= maxRadius * 0.95 with maxRadius = octagonRadius / cos(localAngle):
\* the component of the position along the normal of its segment is at most 0.95 * 8
isInsideOctagon(pt) ==
    \A k \in 1..OctagonSides :
        pt[1] * OctagonNormals[k][1] + pt[2] * OctagonNormals[k][2] <= 76000 * 10000

\* the (cos(angle) * radius, sin(angle) * radius) of the i-th random point (0-based),
\* radius below innerRadius * 0.8, for three runs of draws: points 0.04 apart on a
\* line, the same point every time, and two points 0.0002 apart in turn
RandomDraws == { "spread", "same", "close" }

randomPoint(draw, i) ==
    CASE draw = "spread" -> << 400 * i + 200, 7000 >>
      [] draw = "same"   -> << 12340, -5670 >>
      [] draw = "close"  -> IF i % 2 = 0 THEN << 10004, 20000 >> ELSE << 10006, 20000 >>

\* "for (let i = 0; i < nodeCount / 2; i++)": the points that pass isInsideOctagon
randomPoints(n, draw) ==
    SelectSeq([ i \in 1..((n + 1) \div 2) |-> randomPoint(draw, i - 1) ], isInsideOctagon)

generatePoints(particleCount, jitter, draw) ==
    ringPoints(jitter) \o vertexPoints \o randomPoints(nodeCount(particleCount), draw)

\* delaunay.triangles of new Delaunator(points.flat()): triples of point indices.
\* The library returns at least one triangle for points that are not all on one
\* line; the lists drawn here are triangles among the first ring points.
Triangulations == { << 0, 1, 2 >>, << 0, 1, 2, 2, 3, 4 >> }

\* the random z of a node, (Math.random() - 0.5) * 0.5, the same draw for every node
NodeZs == { -2500, 0 }

\* the input of one build: the generated points and the library's result
GenInput(particleCount, jitter, draw, tri, z) ==
    LET points == generatePoints(particleCount, jitter, draw)
    IN  [ points    |-> points,
          zs        |-> [ i \in DOMAIN points |-> z ],
          triangles |-> tri,
          jits      |-> [ i \in 1..Len(tri) |-> Zero3 ] ]

(***************************************************************************)
(* Inputs the actions draw from.                                           *)
(***************************************************************************)
DeltaTimes == 0..MaxDelta                 \* deltaTime: 0, 0.05 s, 0.1 s
ElapsedTimes == {1, 2}                    \* elapsedTime samples
Origins == { Zero3, << 10000, 20000, 0 >> }
PulseOrigins == { << 10000, 20000, 0 >> } \* a click point on the z = 0 plane
\* (floatX, floatY) = (cos(..) * 0.03, sin(..) * 0.05): samples within the amplitudes
FloatX == 300          \* cos(...) * 0.03
FloatY == 500          \* sin(...) * 0.05
FloatOffsets == { << -FloatX, -FloatY >>, << FloatX, FloatY >> }

Budget(t, b, a, p, c) == [ ticks |-> t, bursts |-> b, acts |-> a, pulses |-> p, counts |-> c ]

Did(name, arg) == [ name |-> name, arg |-> arg ]

(***************************************************************************)
(* NeuralNetwork operations.  The energy packets (energyFlow) are written  *)
(* by update and read by nothing; they are left out.                       *)
(***************************************************************************)
\* async init(): returns at once on a disposed network, else builds
NetBuild(inp) ==
    /\ IF netDisposed
       THEN UNCHANGED << netInited, nodes, nodePositions, edges, flowPaths >>
       ELSE LET built == createInternalNetwork(inp)
            IN  /\ netInited' = TRUE
                /\ nodes' = nodes \o built.nodes
                /\ nodePositions' = nodePositions \o built.nodePositions
                /\ edges' = edges \o built.edges
                /\ flowPaths' = flowPaths \o InitFlowPaths(built.flowPaths, createFlowPaths)
    /\ sceneObjs' = IF netDisposed THEN sceneObjs ELSE sceneObjs \cup {"network"}
    /\ UNCHANGED << netDisposed, pulseWaves, pulseSeq, netParams >>

NetInit(inp) ==
    /\ ~netInited
    /\ NetBuild(inp)
    /\ UNCHANGED res
    /\ op' = Did("netInit", inp)
    /\ err' = FALSE
    /\ UNCHANGED << psVars, appVars, budget >>

\* init() of a network whose createInternalNetwork generates its own points
NetGenerate(jitter, draw, tri, z) ==
    \E inp \in { GenInput(netParams.particleCount, jitter, draw, tri, z) } : NetInit(inp)

\* the floating animation: userData.originalPosition is never set, so
\* "originalPosition?.y || 0 + floatY" is floatY and "(originalPosition?.x || 0) + floatX" is floatX
nodeFloat(position, fl) == << 0 + fl[1], fl[2], position[3] >>

\* one wave of the filter callback in update
waveStep(w, dt) ==
    LET life == w.life - dt
    IN  [ w EXCEPT !.radius = w.radius + w.speed * dt,
                   !.life = life,
                   !.age = w.age + dt,
                   !.intensity = Max(0, (life * 3) \div PulseDivisor) ]

\* an update that steps the waves and removes none
keepWaves(ws, dt) == [ i \in DOMAIN ws |-> waveStep(ws[i], dt) ]

RECURSIVE filterWaves(_, _)
filterWaves(ws, dt) ==
    IF ws = << >> THEN << >>
    ELSE LET w == waveStep(Head(ws), dt)
         IN  IF w.life > 0 THEN << w >> \o filterWaves(Tail(ws), dt)
             ELSE filterWaves(Tail(ws), dt)

\* update(elapsedTime, deltaTime)
NetStep(dt) ==
    /\ IF netDisposed
       THEN UNCHANGED << nodes, pulseWaves >>
       ELSE /\ \E fl \in [ DOMAIN nodes -> FloatOffsets ] :
                 nodes' = [ i \in DOMAIN nodes |->
                              [ nodes[i] EXCEPT !.position = nodeFloat(@, fl[i]) ] ]
            /\ pulseWaves' = filterWaves(pulseWaves, dt)
    /\ UNCHANGED << netInited, netDisposed, nodePositions, edges, flowPaths, pulseSeq,
                    netParams >>

NetUpdate(dt) ==
    /\ budget.ticks > 0
    /\ budget' = [ budget EXCEPT !.ticks = @ - 1 ]
    /\ NetStep(dt)
    /\ UNCHANGED res
    /\ op' = Did("netUpdate", dt)
    /\ err' = FALSE
    /\ UNCHANGED << psVars, sceneObjs, appVars >>

\* update(elapsedTime, deltaTime) as the frame loop keeps calling it, frame after frame
NetFrame(dt) ==
    /\ NetStep(dt)
    /\ UNCHANGED res
    /\ op' = Did("netUpdate", dt)
    /\ err' = FALSE
    /\ UNCHANGED << psVars, sceneObjs, appVars, budget >>

\* a wave pushed with life 3
shortWave(origin, id) ==
    [ id |-> id, age |-> 0, origin |-> origin, radius |-> 0, speed |-> PulseSpeed,
      intensity |-> PulseIntensity, life |-> 60 ]

\* a wave pushed with intensity 1.0
faintWave(origin, id) ==
    [ id |-> id, age |-> 0, origin |-> origin, radius |-> 0, speed |-> PulseSpeed,
      intensity |-> 60, life |-> PulseLife ]

\* the wave triggerPulse pushes; id is its trigger number and age the sum of the
\* deltaTimes it has been updated with (neither is a field of the source's wave)
newWave(origin, id) ==
    [ id |-> id, age |-> 0, origin |-> origin, radius |-> 0, speed |-> PulseSpeed,
      intensity |-> PulseIntensity, life |-> PulseLife ]

\* a triggerPulse that makes room by dropping the newest wave
dropNewest(ws, origin, id) ==
    Append(IF Len(ws) >= maxPulseWaves THEN SubSeq(ws, 1, Len(ws) - 1) ELSE ws,
           newWave(origin, id))

triggerPulse(ws, origin, id) ==
    Append(IF Len(ws) >= maxPulseWaves THEN Tail(ws) ELSE ws, newWave(origin, id))

NetTriggerPulse(origin) ==
    /\ budget.pulses > 0
    /\ budget' = [ budget EXCEPT !.pulses = @ - 1 ]
    /\ pulseWaves' = triggerPulse(pulseWaves, origin, pulseSeq + 1)
    /\ pulseSeq' = pulseSeq + 1
    /\ UNCHANGED res
    /\ op' = Did("triggerPulse", origin)
    /\ err' = FALSE
    /\ UNCHANGED << netInited, netDisposed, nodes, nodePositions, edges, flowPaths,
                    netParams, psVars, sceneObjs, appVars >>

NetDispose ==
    /\ ~netDisposed
    /\ netDisposed' = TRUE
    /\ nodes' = << >>
    /\ edges' = << >>
    /\ nodePositions' = << >>
    /\ flowPaths' = << >>
    /\ pulseWaves' = << >>
    /\ sceneObjs' = sceneObjs \ {"network"}
    /\ UNCHANGED res
    /\ op' = Did("netDispose", 0)
    /\ err' = FALSE
    /\ UNCHANGED << netInited, pulseSeq, netParams, psVars, appVars, budget >>

\* updateParams(params): "this.params = params"
NetSetParams(params) ==
    /\ netParams' = params
    /\ UNCHANGED << netInited, netDisposed, nodes, nodePositions, edges, flowPaths,
                    pulseWaves, pulseSeq >>

(***************************************************************************)
(* ParticleSystem.  A point sampled from a path, curve.getPoint(progress)  *)
(* of flowPaths[path], is kept as the pair it was sampled at; a flow       *)
(* particle's position adds an offset that depends on this.time.           *)
(***************************************************************************)
FlowSpeeds == {10, 25}                    \* 0.1 + Math.random() * 0.2
TrailSpeeds == {15}                       \* 0.1 + Math.random() * 0.1
RandomSamples == {0, 999}                 \* Math.random(), in 1/1000
InitProgress == {0, 19900}                \* pathProgress = Math.random()
AnimSpeeds == {0, 10, 30}                 \* animationSpeed, the GUI's range 0..3
ParticleCounts == {0, 4}                  \* params.particleCount: 0 or 1 flow particle
PoolCounts == {0, 4, 5}                   \* 5: one flow and one ambient particle
Velocities == { << 1, 0, 0 >>, << 0, -2, 1 >> }   \* random spherical velocities

ParamChoices == [ animationSpeed : AnimSpeeds, particleCount : ParticleCounts ]
PoolParams == [ animationSpeed : {10}, particleCount : PoolCounts ]

Pt(path, at) == [ path |-> path, at |-> at ]
ZeroPt == Pt(-1, 0)                       \* new THREE.Vector3()
FlowPosition(path, at, time) == [ path |-> path, at |-> at, time |-> time ]

\* an index drawn from 0..length, one past the end of the list
RandomIndexPastEnd(length) == { (r * (length + 1)) \div 1000 : r \in RandomSamples }

\* Math.floor(Math.random() * length) for the sampled values of Math.random():
\* the first and the last index of the list, 0 for an empty list
RandomIndex(length) == { (r * length) \div 1000 : r \in RandomSamples }

\* Math.floor(this.maxParticles * 0.3)
FlowCount(particleCount) == (particleCount * 3) \div 10

\* createAmbientParticles: Math.floor(this.maxParticles * 0.2)
AmbientCount(particleCount) == (particleCount * 2) \div 10

\* this.trails after createTrailSystem
createTrails(speeds) ==
    [ i \in 1..trailCount |->
        [ positions |-> [ k \in 1..trailLength |-> ZeroPt ],
          active    |-> FALSE,
          pathIndex |-> 0,
          progress  |-> 0,
          speed     |-> speeds[i] ] ]

\* constructor + init(): createFlowParticles reads flowPaths[pathIndex].curve for
\* every flow particle and throws a TypeError when the list is empty
ConstructThrows(n) == n > 0 /\ Len(flowPaths) = 0

PSBuild(params) ==
    LET n == FlowCount(params.particleCount)
    IN  IF ConstructThrows(n)
           THEN /\ psState' = "failed"
                /\ UNCHANGED << psDisposed, psParams, psTime, flowIdx, flowProg, flowSpeed,
                                flowPos, trails, trailBufPos, trailAlpha, burstLife,
                                burstPos, burstVel, ambientPhase, particleGroups, sceneObjs >>
           ELSE /\ psState' = "live"
                /\ psParams' = params
                /\ psTime' = 0
                /\ flowIdx' \in [ 1..n -> RandomIndex(Len(flowPaths)) ]
                /\ flowProg' \in [ 1..n -> InitProgress ]
                /\ flowSpeed' \in [ 1..n -> FlowSpeeds ]
                /\ flowPos' = [ i \in 1..n |-> FlowPosition(flowIdx'[i], flowProg'[i], NoOffset) ]
                /\ \E sp \in [ 1..trailCount -> TrailSpeeds ] : trails' = createTrails(sp)
                /\ trailBufPos' = [ i \in 1..trailCount |-> [ k \in 1..trailLength |-> ZeroPt ] ]
                /\ trailAlpha' = [ i \in 1..trailCount |-> [ k \in 1..trailLength |-> 0 ] ]
                /\ burstLife' = [ i \in 1..burstCount |-> 0 ]
                /\ burstPos' = [ i \in 1..burstCount |-> Zero3 ]
                /\ burstVel' = [ i \in 1..burstCount |-> Zero3 ]
                /\ ambientPhase' \in [ 1..AmbientCount(params.particleCount) -> RandomSamples ]
                /\ particleGroups' = << "flow", "ambient" >>
                /\ sceneObjs' = sceneObjs \cup { "flow", "trail", "burst", "ambient" }
                /\ UNCHANGED psDisposed

PSConstruct(params) ==
    /\ psState = "none"
    /\ params.particleCount \in budget.counts
    /\ PSBuild(params)
    /\ err' = ConstructThrows(FlowCount(params.particleCount))
    /\ UNCHANGED res
    /\ op' = Did("construct", params.particleCount)
    /\ UNCHANGED << netVars, appVars, budget >>

\* a progress that is never reset
keepProgress(p) == p

\* "if (pathProgress > 1) pathProgress = 0"
wrapProgress(p) == IF p > ProgressOne THEN 0 ELSE p

\* the particles whose progress passes 1 in this update
Wrapping(dt) ==
    { i \in DOMAIN flowIdx :
        flowProg[i] + flowSpeed[i] * dt * psParams.animationSpeed > ProgressOne }

\* one particle of updateFlowParticles; pick = -1: Math.random() >= 0.3, no switch
flowStep(idx, prog, speed, pos, dt, pick, time) ==
    LET moved   == prog + speed * dt * psParams.animationSpeed
        wrapped == moved > ProgressOne
        prog2   == wrapProgress(moved)
        idx2    == IF wrapped /\ pick >= 0 THEN pick ELSE idx
    IN  [ idx |-> idx2, prog |-> prog2,
          pos |-> IF idx2 >= 0 /\ idx2 < Len(flowPaths)
                  THEN FlowPosition(idx2, prog2, time) ELSE pos ]

\* a ring in which the new sample overwrites every slot
fillRing(ring, point) == [ k \in 1..Len(ring) |-> point ]

\* "positions[i].copy(positions[i - 1])" from the last slot down, then
\* "positions[0].copy(point)"
shiftRing(ring, point) ==
    [ k \in 1..Len(ring) |-> IF k = 1 THEN point ELSE ring[k - 1] ]

\* one trail of updateTrails; act = -1: no activation this frame
trailStep(t, bufPos, alpha, dt, act) ==
    LET t1 == IF ~t.active /\ act >= 0
              THEN [ t EXCEPT !.active = TRUE, !.pathIndex = act, !.progress = 0 ]
              ELSE t
        prog == t1.progress + t1.speed * dt * 10
    IN  IF ~t1.active THEN [ trail |-> t1, bufPos |-> bufPos, alpha |-> alpha ]
        ELSE IF prog > ProgressOne
        THEN [ trail  |-> [ t1 EXCEPT !.progress = prog, !.active = FALSE ],
               bufPos |-> bufPos,
               alpha  |-> [ k \in 1..trailLength |-> 0 ] ]
        ELSE IF t1.pathIndex < Len(flowPaths)
        THEN LET ring == shiftRing(t1.positions, Pt(t1.pathIndex, prog))
             IN  [ trail  |-> [ t1 EXCEPT !.progress = prog, !.positions = ring ],
                   bufPos |-> ring,
                   \* (1 - i / trailLength) * 0.5, in units of 1 / (2 trailLength)
                   alpha  |-> [ k \in 1..trailLength |-> trailLength - (k - 1) ] ]
        ELSE [ trail |-> [ t1 EXCEPT !.progress = prog ], bufPos |-> bufPos, alpha |-> alpha ]

\* a decay without the clamp at 0
decayUnclamped(life, dt) == IF life > 0 THEN life - dt * BurstDecay ELSE life

\* a decay that stops one step above 0
decayStalls(life, dt) == IF life > 0 THEN Max(1, life - dt * BurstDecay) ELSE life

\* one particle of updateBurstParticles
burstDecay(life, dt) ==
    IF life > 0 THEN Max(0, life - dt * BurstDecay) ELSE life

\* the burst particles whose lifetime this update takes below 0 and resets to 0
Clamping(dt) ==
    { i \in DOMAIN burstLife : burstLife[i] > 0 /\ burstLife[i] - dt * BurstDecay < 0 }

\* the trails that may activate in this update
Inactive == { i \in DOMAIN trails : ~trails[i].active }

\* update(elapsedTime, deltaTime); on: the trails whose activation draw succeeds
PSStep(elapsedTime, dt, on) ==
    /\ psTime' = elapsedTime
    /\ \E pick \in [ Wrapping(dt) -> {-1} \cup RandomIndex(Len(flowPaths)) ] :
          LET st == [ i \in DOMAIN flowIdx |->
                        flowStep(flowIdx[i], flowProg[i], flowSpeed[i], flowPos[i], dt,
                                 IF i \in Wrapping(dt) THEN pick[i] ELSE -1, elapsedTime) ]
          IN  /\ flowIdx'  = [ i \in DOMAIN flowIdx |-> st[i].idx ]
              /\ flowProg' = [ i \in DOMAIN flowIdx |-> st[i].prog ]
              /\ flowPos'  = [ i \in DOMAIN flowIdx |-> st[i].pos ]
    /\ \E act \in [ on -> RandomIndex(Len(flowPaths)) ] :
          LET st == [ i \in DOMAIN trails |->
                        trailStep(trails[i], trailBufPos[i], trailAlpha[i], dt,
                                  IF i \in on THEN act[i] ELSE -1) ]
          IN  /\ trails' = [ i \in DOMAIN trails |-> st[i].trail ]
              /\ trailBufPos' = [ i \in DOMAIN trailBufPos |->
                                    IF i \in DOMAIN trails THEN st[i].bufPos
                                    ELSE trailBufPos[i] ]
              /\ trailAlpha' = [ i \in DOMAIN trailAlpha |->
                                    IF i \in DOMAIN trails THEN st[i].alpha
                                    ELSE trailAlpha[i] ]
    /\ burstLife' = [ i \in DOMAIN burstLife |-> burstDecay(burstLife[i], dt) ]
    /\ UNCHANGED << psState, psDisposed, psParams, flowSpeed, burstPos, burstVel,
                    ambientPhase, particleGroups >>

PSUpdate(elapsedTime, dt) ==
    /\ psState = "live"
    /\ budget.ticks > 0
    /\ \E on \in SUBSET Inactive :
          /\ Cardinality(on) <= budget.acts
          /\ PSStep(elapsedTime, dt, on)
          /\ budget' = [ budget EXCEPT !.ticks = @ - 1, !.acts = @ - Cardinality(on) ]
    /\ UNCHANGED res
    /\ op' = [ name |-> "update", arg |-> dt, wrapped |-> Wrapping(dt),
                   clamped |-> Clamping(dt) ]
    /\ err' = FALSE
    /\ UNCHANGED << sceneObjs, netVars, appVars >>

\* update(elapsedTime, deltaTime) as the frame loop keeps calling it, frame after frame
PSFrame(elapsedTime, dt) ==
    /\ psState = "live"
    /\ PSStep(elapsedTime, dt, {})
    /\ UNCHANGED res
    /\ op' = [ name |-> "update", arg |-> dt, wrapped |-> Wrapping(dt),
                   clamped |-> Clamping(dt) ]
    /\ err' = FALSE
    /\ UNCHANGED << sceneObjs, netVars, appVars, budget >>

\* a scan that takes every slot with lifetime <= 0, whatever the burst size
scanAll(life, i, count, acc) == { j \in 1..Len(life) : life[j] <= 0 }

\* a burst that takes the first burstSize slots, whatever their lifetime
firstSlots(life) == 1..Min(burstSize, Len(life))

\* the scan of triggerBurst: the first burstSize slots with lifetime <= 0
RECURSIVE burstScan(_, _, _, _)
burstScan(life, i, count, acc) ==
    IF ~(i < Len(life) /\ count < burstSize) THEN acc
    ELSE IF life[i + 1] <= 0
         THEN burstScan(life, i + 1, count + 1, acc \cup {i + 1})
         ELSE burstScan(life, i + 1, count, acc)

triggerBurstSlots(life) == burstScan(life, 0, 0, {})

PSTriggerBurst(origin) ==
    /\ psState = "live"
    /\ budget.bursts > 0
    /\ budget' = [ budget EXCEPT !.bursts = @ - 1 ]
    /\ LET hit == triggerBurstSlots(burstLife)
       IN  /\ burstLife' = [ i \in DOMAIN burstLife |-> IF i \in hit THEN BurstLife ELSE burstLife[i] ]
           /\ burstPos' = [ i \in DOMAIN burstPos |-> IF i \in hit THEN origin ELSE burstPos[i] ]
           /\ \E vel \in [ hit -> Velocities ] :
                 burstVel' = [ i \in DOMAIN burstVel |-> IF i \in hit THEN vel[i] ELSE burstVel[i] ]
    /\ UNCHANGED res
    /\ op' = Did("triggerBurst", origin)
    /\ err' = FALSE
    /\ UNCHANGED << psState, psDisposed, psParams, psTime, flowIdx, flowProg, flowSpeed,
                    flowPos, trails, trailBufPos, trailAlpha, ambientPhase, particleGroups,
                    sceneObjs, netVars, appVars >>

\* a parameter update that also rebuilds the ambient pool for the new particleCount
ambientOnParams(params) ==
    /\ psParams' = params
    /\ ambientPhase' = [ i \in 1..AmbientCount(params.particleCount) |-> 0 ]
    /\ UNCHANGED << psState, psDisposed, psTime, flowIdx, flowProg, flowSpeed, flowPos,
                    trails, trailBufPos, trailAlpha, burstLife, burstPos, burstVel,
                    particleGroups >>

\* a parameter update that also resizes the flow pool to the new particleCount
resizeOnParams(params) ==
    LET n == FlowCount(params.particleCount)
        keep(seq) == [ i \in 1..n |-> IF i <= Len(seq) THEN seq[i] ELSE 0 ]
    IN  /\ psParams' = params
        /\ flowIdx' = keep(flowIdx)
        /\ flowProg' = keep(flowProg)
        /\ flowSpeed' = keep(flowSpeed)
        /\ flowPos' = keep(flowPos)
        /\ UNCHANGED << psState, psDisposed, psTime, trails, trailBufPos, trailAlpha,
                        burstLife, burstPos, burstVel, ambientPhase, particleGroups >>

\* updateParams(params): "this.params = params", then shader uniforms only
PSSetParams(params) ==
    /\ psParams' = params
    /\ UNCHANGED << psState, psDisposed, psTime, flowIdx, flowProg, flowSpeed, flowPos,
                    trails, trailBufPos, trailAlpha, burstLife, burstPos, burstVel,
                    ambientPhase, particleGroups >>

PSUpdateParams(params) ==
    /\ psState = "live"
    /\ PSSetParams(params)
    /\ UNCHANGED res
    /\ op' = Did("updateParams", params)
    /\ err' = FALSE
    /\ UNCHANGED << sceneObjs, netVars, appVars, budget >>

\* dispose(): removes the groups of particleGroups from the scene, empties
\* particleGroups and trails
PSDispose ==
    /\ psState = "live"
    /\ ~psDisposed
    /\ psDisposed' = TRUE
    /\ sceneObjs' = sceneObjs \ Range(particleGroups)
    /\ particleGroups' = << >>
    /\ trails' = << >>
    /\ UNCHANGED res
    /\ op' = Did("dispose", 0)
    /\ err' = FALSE
    /\ UNCHANGED << psState, psParams, psTime, flowIdx, flowProg, flowSpeed, flowPos,
                    trailBufPos, trailAlpha, burstLife, burstPos, burstVel, ambientPhase,
                    netVars, appVars, budget >>

(***************************************************************************)
(* ResourceManager.  this.textures maps a name to the texture cached under *)
(* it ("none": no entry); pending counts, per name, the requests handed to *)
(* the texture loader whose callback has not run yet.                      *)
(***************************************************************************)
TextureNames == { "particle", "noise" }

\* the state after the constructor
NewResourceManager ==
    [ textures |-> [ n \in TextureNames |-> "none" ],
      pending  |-> [ n \in TextureNames |-> 0 ],
      disposed |-> FALSE ]

\* this.textureLoader.load(fullPath, onLoad, onProgress, onError) for each name
startLoads(names) ==
    [ res EXCEPT !.pending = [ n \in TextureNames |-> IF n \in names THEN @[n] + 1 ELSE @[n] ] ]

\* loadTexture(name, path): rejects when disposed, else hands the request to the loader
ResLoadTexture(name) ==
    /\ res.pending[name] < MaxLoads
    /\ res' = IF res.disposed THEN res ELSE startLoads({ name })
    /\ err' = res.disposed
    /\ op' = Did("loadTexture", name)
    /\ UNCHANGED << netVars, psVars, appVars, sceneObjs, budget >>

\* loadTextures(texturePaths): returns {} when disposed, else one loadTexture per entry
ResLoadTextures(names) ==
    /\ \A n \in names : res.pending[n] < MaxLoads
    /\ res' = IF res.disposed THEN res ELSE startLoads(names)
    /\ err' = FALSE
    /\ op' = Did("loadTextures", names)
    /\ UNCHANGED << netVars, psVars, appVars, sceneObjs, budget >>

\* the loader calls back: onLoad stores the texture, onError stores the fallback
\* texture; both write this.textures[name]
ResLoadDone(name, ok) ==
    /\ res.pending[name] > 0
    /\ res' = [ res EXCEPT !.pending[name] = @ - 1,
                           !.textures[name] = IF ok THEN "loaded" ELSE "fallback" ]
    /\ err' = FALSE
    /\ op' = Did("loadDone", << name, ok >>)
    /\ UNCHANGED << netVars, psVars, appVars, sceneObjs, budget >>

\* dispose(): disposed = true, every cached texture disposed, this.textures = {}
ResDispose ==
    /\ res' = [ res EXCEPT !.disposed = TRUE,
                           !.textures = [ n \in TextureNames |-> "none" ] ]
    /\ err' = FALSE
    /\ op' = Did("resDispose", 0)
    /\ UNCHANGED << netVars, psVars, appVars, sceneObjs, budget >>

(***************************************************************************)
(* NeuralNetworkApp: init() and the frame loop.                            *)
(***************************************************************************)
\* a node check that never fails
nodesAssumed(positions) == FALSE

\* "!nodePositions || nodePositions.length === 0"
NoNodePositions(positions) == Len(positions) = 0

\* this.params of the application: the default speed and a particleCount that
\* gives one flow particle
AppParams == [ animationSpeed |-> 10, particleCount |-> 4 ]

MessageTypes == { "pause", "resume" }

\* time between two animation frames: within a tick, one tick, and a tab that
\* was hidden for a minute
FrameGaps == { 0, 1, 1200 }

\* a start-up that builds the network again whenever it has not failed
alwaysPending == appPhase # "error"

\* init() is called once, by the constructor, and has not reached the network yet
NetworkPending == appPhase = "start"

\* init() up to the end of "await this.neuralNetwork.init()"
AppCreateNetwork(inp) ==
    /\ NetworkPending
    /\ NetBuild(inp)
    /\ appPhase' = "network"
    /\ UNCHANGED res
    /\ op' = Did("appCreateNetwork", 0)
    /\ err' = FALSE
    /\ UNCHANGED << psVars, paused, hostPaused, clockDelta, budget >>

\* init() after that await: the node check, new ParticleSystem, initialized = true
\* and the first animate(); a throw lands in the catch block and handleError
AppCreateParticles ==
    /\ appPhase = "network"
    /\ IF NoNodePositions(nodePositions)
       THEN /\ appPhase' = "error"
            /\ err' = TRUE
            /\ UNCHANGED << psVars, sceneObjs >>
       ELSE /\ PSBuild(AppParams)
            /\ err' = ConstructThrows(FlowCount(AppParams.particleCount))
            /\ appPhase' = IF ConstructThrows(FlowCount(AppParams.particleCount))
                           THEN "error" ELSE "running"
    /\ UNCHANGED res
    /\ op' = Did("appCreateParticles", 0)
    /\ UNCHANGED << netVars, paused, hostPaused, clockDelta, budget >>

\* a frame loop that does not look at the flag
alwaysInitialized == TRUE

\* this.initialized: set at the end of a successful init(), tested by animate()
Initialized == appPhase = "running"

\* a step of init() before the network is created throws (setupRenderer without
\* WebGL): the catch block calls handleError
AppInitThrows ==
    /\ appPhase = "start"
    /\ appPhase' = "error"
    /\ err' = TRUE
    /\ UNCHANGED res
    /\ op' = Did("appInitThrows", 0)
    /\ UNCHANGED << netVars, psVars, sceneObjs, paused, hostPaused, clockDelta, budget >>

\* a frame time that is passed on as it is
noClamp(raw) == raw

\* Math.min(this.clock.getDelta(), 0.1)
clampDelta(raw) == Min(raw, MaxDelta)

\* animate(): one frame that is not skipped; gap is the time since the last call
AppAnimate(elapsedTime, gap) ==
    /\ Initialized
    /\ ~paused
    /\ budget.ticks > 0
    /\ LET raw == clockDelta + gap
           dt  == clampDelta(raw)
       IN  /\ NetStep(dt)
           /\ \E on \in SUBSET Inactive :
                 /\ Cardinality(on) <= budget.acts
                 /\ PSStep(elapsedTime, dt, on)
                 /\ budget' = [ budget EXCEPT !.ticks = @ - 1, !.acts = @ - Cardinality(on) ]
           /\ UNCHANGED res
           /\ op' = [ name |-> "animate", arg |-> dt, wrapped |-> Wrapping(dt),
                   clamped |-> Clamping(dt), raw |-> raw ]
    /\ clockDelta' = 0
    /\ err' = FALSE
    /\ UNCHANGED << sceneObjs, appPhase, paused, hostPaused >>

\* animate() while paused: the frame returns before clock.getDelta()
AppSkipFrame(gap) ==
    /\ appPhase = "running"
    /\ paused
    /\ budget.ticks > 0
    /\ budget' = [ budget EXCEPT !.ticks = @ - 1 ]
    /\ clockDelta' = clockDelta + gap
    /\ UNCHANGED res
    /\ op' = Did("skipFrame", gap)
    /\ err' = FALSE
    /\ UNCHANGED << netVars, psVars, sceneObjs, appPhase, paused, hostPaused >>

\* handleMessage: 'pause' and 'resume'
AppMessage(type) ==
    /\ appPhase = "running"
    /\ paused' = (type = "pause")
    /\ hostPaused' = (type = "pause")
    /\ UNCHANGED res
    /\ op' = Did("message", type)
    /\ err' = FALSE
    /\ UNCHANGED << netVars, psVars, sceneObjs, appPhase, clockDelta, budget >>

\* "this.paused = document.hidden"
visibilityPaused(hidden) == hidden

\* handleVisibilityChange: the tab was hidden or shown
AppVisibilityChange(hidden) ==
    /\ appPhase = "running"
    /\ paused' = visibilityPaused(hidden)
    /\ UNCHANGED res
    /\ op' = Did("visibilityChange", hidden)
    /\ err' = FALSE
    /\ UNCHANGED << netVars, psVars, sceneObjs, appPhase, hostPaused, clockDelta, budget >>

\* handleMessage 'updateConfig': Object.assign(this.params, config), updateParams()
AppUpdateParams(config) ==
    /\ appPhase = "running"
    /\ NetSetParams(config)
    /\ PSSetParams(config)
    /\ UNCHANGED res
    /\ op' = Did("appUpdateParams", config)
    /\ err' = FALSE
    /\ UNCHANGED << sceneObjs, appVars, budget >>

(***************************************************************************)
(* Specifications.                                                         *)
(***************************************************************************)
\* after "new NeuralNetwork(scene, params)"; no ParticleSystem yet
InitComponents ==
    /\ res = NewResourceManager
    /\ netInited = FALSE
    /\ netDisposed = FALSE
    /\ nodes = << >>
    /\ nodePositions = << >>
    /\ edges = << >>
    /\ flowPaths = << >>
    /\ pulseWaves = << >>
    /\ pulseSeq = 0
    /\ psState = "none"
    /\ psDisposed = FALSE
    /\ psParams = [ animationSpeed |-> 10, particleCount |-> 0 ]
    /\ psTime = 0
    /\ flowIdx = << >>
    /\ flowProg = << >>
    /\ flowSpeed = << >>
    /\ flowPos = << >>
    /\ trails = << >>
    /\ trailBufPos = << >>
    /\ trailAlpha = << >>
    /\ burstLife = << >>
    /\ burstPos = << >>
    /\ burstVel = << >>
    /\ ambientPhase = << >>
    /\ particleGroups = << >>
    /\ sceneObjs = {}
    /\ paused = FALSE
    /\ hostPaused = FALSE
    /\ clockDelta = 0
    /\ op = Did("new", 0)
    /\ err = FALSE

\* the two classes used on their own, without the application
InitBase == InitComponents /\ appPhase = "off" /\ netParams = AppParams

\* a small build: three points, one triangle
SmallBuild ==
    [ points    |-> << << 0, 0 >>, << 20000, 0 >>, << 0, 20000 >> >>,
      zs        |-> << 0, 1000, -1000 >>,
      triangles |-> << 0, 1, 2 >>,
      jits      |-> << << 1000, -1000, 500 >>, Zero3, << -1500, 0, 0 >> >> ]

\* four points, two triangles sharing a side, and a fifth point that repeats the first
TwoTriangles ==
    [ points    |-> << << 0, 0 >>, << 20000, 0 >>, << 0, 20000 >>, << 20000, 20000 >>,
                       << 0, 0 >> >>,
      zs        |-> << 0, 1000, -1000, 500, 700 >>,
      triangles |-> << 0, 1, 2, 1, 3, 2 >>,
      jits      |-> << << 1000, -1000, 500 >>, Zero3, << -1500, 0, 0 >>,
                       << 0, 800, 0 >>, << 100, 100, -100 >> >> ]

\* a builder that produced no point at all
EmptyBuild == [ points |-> << >>, zs |-> << >>, triangles |-> << >>, jits |-> << >> ]

PSBuildInputs == { SmallBuild }
BuildInputs == { SmallBuild, TwoTriangles, EmptyBuild }
AppBuildInputs == { SmallBuild, EmptyBuild }

\* flow particles travelling: update ticks interleaved with updateParams
InitFlow == InitBase /\ budget = Budget(MaxTicks, 0, 0, 0, {4})

NextFlow ==
    \/ \E inp \in PSBuildInputs : NetInit(inp)
    \/ \E p \in ParamChoices : PSConstruct(p)
    \/ \E t \in ElapsedTimes, dt \in DeltaTimes : PSUpdate(t, dt)
    \/ \E p \in ParamChoices : PSUpdateParams(p)

SpecFlow == InitFlow /\ [][NextFlow]_vars

\* the burst pool: triggerBurst interleaved with update ticks
InitBurst == InitBase /\ budget = Budget(MaxBurstTicks, MaxBursts, 0, 0, {0})

NextBurst ==
    \/ \E p \in ParamChoices : PSConstruct(p)
    \/ \E t \in ElapsedTimes, dt \in DeltaTimes : PSUpdate(t, dt)
    \/ \E o \in Origins : PSTriggerBurst(o)

SpecBurst == InitBurst /\ [][NextBurst]_vars

\* the pools of a system built with one flow particle and one ambient particle:
\* updateParams interleaved with update ticks in one run, with bursts in the other
PoolScenarios ==
    { Budget(MaxPoolTicks, 0, 0, 0, {5}), Budget(0, MaxPoolBursts, 0, 0, {5}) }

InitPool == InitBase /\ budget \in PoolScenarios

NextPool ==
    \/ \E inp \in PSBuildInputs : NetInit(inp)
    \/ \E p \in PoolParams : PSConstruct(p)
    \/ \E t \in ElapsedTimes, dt \in DeltaTimes : PSUpdate(t, dt)
    \/ \E o \in Origins : PSTriggerBurst(o)
    \/ \E p \in PoolParams : PSUpdateParams(p)

SpecPool == InitPool /\ [][NextPool]_vars

\* the burst pool under a frame loop that never stops: any number of updates,
\* a bounded number of bursts.  requestAnimationFrame re-arms animate() on every
\* frame and time passes between frames, so an update with a positive deltaTime
\* always comes again.
InitBurstLive == InitBase /\ budget = Budget(0, MaxLiveBursts, 0, 0, {0})

PositiveFrame == \E dt \in 1..MaxDelta : PSFrame(1, dt)

NextBurstLive ==
    \/ \E p \in ParamChoices : PSConstruct(p)
    \/ \E dt \in DeltaTimes : PSFrame(1, dt)
    \/ \E o \in PulseOrigins : PSTriggerBurst(o)

SpecBurstLive == InitBurstLive /\ [][NextBurstLive]_vars /\ WF_vars(PositiveFrame)

\* a trail followed from its activation to the end of its path and into its next
\* activation, under frames of the longest deltaTime
TrailParams == [ animationSpeed : {10}, particleCount : {0} ]

InitTrail == InitBase /\ budget = Budget(MaxTrailTicks, 0, MaxTrailActs, 0, {0})

NextTrail ==
    \/ \E inp \in PSBuildInputs : NetInit(inp)
    \/ \E p \in TrailParams : PSConstruct(p)
    \/ PSUpdate(1, MaxDelta)

SpecTrail == InitTrail /\ [][NextTrail]_vars

\* the texture cache: loads started, completed and disposed in any order
InitRes == InitBase /\ budget = Budget(0, 0, 0, 0, {})

NextRes ==
    \/ \E n \in TextureNames : ResLoadTexture(n)
    \/ \E names \in SUBSET TextureNames : ResLoadTextures(names)
    \/ \E n \in TextureNames, ok \in BOOLEAN : ResLoadDone(n, ok)
    \/ ResDispose

SpecRes == InitRes /\ [][NextRes]_vars

\* every operation of the particle system, on a network that may be initialised
\* or disposed at any time
LifeScenarios ==
    { Budget(MaxLifeTicks, 0, 0, 0, {4}),
      Budget(MaxLifeTicks, MaxLifeBursts, 0, 0, {0}),
      Budget(MaxLifeTicks, 0, MaxActs, 0, {0}) }

InitPS == InitBase /\ budget \in LifeScenarios

NextPS ==
    \/ \E inp \in PSBuildInputs : NetInit(inp)
    \/ NetDispose
    \/ \E p \in ParamChoices : PSConstruct(p)
    \/ \E t \in ElapsedTimes, dt \in DeltaTimes : PSUpdate(t, dt)
    \/ \E o \in Origins : PSTriggerBurst(o)
    \/ \E p \in ParamChoices : PSUpdateParams(p)
    \/ PSDispose

SpecPS == InitPS /\ [][NextPS]_vars

\* the pulse waves: triggerPulse interleaved with update ticks; one run fills the
\* list past its capacity, the other follows a wave through its whole life
PulseScenarios ==
    { Budget(MaxCapTicks, 0, 0, MaxPulses, {}),
      Budget(MaxPulseTicks, 0, 0, 1, {}) }

InitNet == InitBase /\ budget \in PulseScenarios

NextNet ==
    \/ \E dt \in DeltaTimes : NetUpdate(dt)
    \/ \E o \in PulseOrigins : NetTriggerPulse(o)

SpecNet == InitNet /\ [][NextNet]_vars

\* the pulse waves under a frame loop that never stops: any number of updates,
\* a bounded number of pulses; an update with a positive deltaTime always comes again
InitNetLive == InitBase /\ budget = Budget(0, 0, 0, MaxLivePulses, {})

PositiveNetFrame == \E dt \in 1..MaxDelta : NetFrame(dt)

NextNetLive ==
    \/ \E dt \in DeltaTimes : NetFrame(dt)
    \/ \E o \in PulseOrigins : NetTriggerPulse(o)

SpecNetLive == InitNetLive /\ [][NextNetLive]_vars /\ WF_vars(PositiveNetFrame)

\* the build of the graph and its flow paths, then update ticks
InitBuild == InitBase /\ budget = Budget(MaxBuildTicks, 0, 0, 0, {})

NextBuild ==
    \/ \E inp \in BuildInputs : NetInit(inp)
    \/ \E dt \in DeltaTimes : NetUpdate(dt)

SpecBuild == InitBuild /\ [][NextBuild]_vars

\* point generation for the particleCount of the network's params: targets of
\* 0, 1, 3, 10, 50 and 200 nodes
GenParticleCounts == { 0, 20, 60, 200, 1000, 8000 }

InitGen ==
    /\ InitComponents
    /\ appPhase = "off"
    /\ netParams \in [ animationSpeed : {10}, particleCount : GenParticleCounts ]
    /\ budget = Budget(0, 0, 0, 0, {})

NextGen ==
    \E jitter \in RingJitters, draw \in RandomDraws, tri \in Triangulations, z \in NodeZs :
        NetGenerate(jitter, draw, tri, z)

SpecGen == InitGen /\ [][NextGen]_vars

\* the application: start-up, then frames and pause / resume messages
InitApp ==
    /\ InitComponents
    /\ appPhase = "start"
    /\ netParams = AppParams
    /\ budget = Budget(MaxAppTicks, 0, 0, 0, {4})

NextApp ==
    \/ \E inp \in AppBuildInputs : AppCreateNetwork(inp)
    \/ AppInitThrows
    \/ AppCreateParticles
    \/ \E t \in ElapsedTimes, g \in FrameGaps : AppAnimate(t, g)
    \/ \E g \in FrameGaps : AppSkipFrame(g)
    \/ \E m \in MessageTypes : AppMessage(m)
    \/ \E c \in ParamChoices : AppUpdateParams(c)

SpecApp == InitApp /\ [][NextApp]_vars

\* the frame loop under pause / resume messages and visibility changes
InitAppPause ==
    /\ InitComponents
    /\ appPhase = "start"
    /\ netParams = AppParams
    /\ budget = Budget(MaxPauseTicks, 0, 0, 0, {4})

NextAppPause ==
    \/ \E inp \in AppBuildInputs : AppCreateNetwork(inp)
    \/ AppInitThrows
    \/ AppCreateParticles
    \/ \E t \in ElapsedTimes, g \in FrameGaps : AppAnimate(t, g)
    \/ \E g \in FrameGaps : AppSkipFrame(g)
    \/ \E m \in MessageTypes : AppMessage(m)
    \/ \E hidden \in BOOLEAN : AppVisibilityChange(hidden)

SpecAppPause == InitAppPause /\ [][NextAppPause]_vars

ActiveBursts == { i \in DOMAIN burstLife : burstLife[i] > 0 }
InactiveBursts == { i \in DOMAIN burstLife : burstLife[i] <= 0 }
NewlyActive == { i \in InactiveBursts : burstLife'[i] > 0 }
BurstWritten ==
    { i \in DOMAIN burstLife :
        burstLife'[i] # burstLife[i] \/ burstPos'[i] # burstPos[i] \/ burstVel'[i] # burstVel[i] }

C2_PoolShape ==
    psState = "live" =>
        /\ DOMAIN burstLife = 1..burstCount
        /\ DOMAIN burstPos = 1..burstCount
        /\ DOMAIN burstVel = 1..burstCount
        /\ Cardinality(ActiveBursts) <= burstCount

C2_TriggerStep ==
    op'.name = "triggerBurst" =>
        /\ ~err'
        /\ DOMAIN burstLife' = DOMAIN burstLife
        /\ BurstWritten \subseteq InactiveBursts
        /\ Cardinality(NewlyActive) <= burstSize
        /\ Cardinality(InactiveBursts) < burstSize => NewlyActive = InactiveBursts

\* C2: under any interleaving of triggerBurst and update the pool keeps its
\* capacity and the active particles never outnumber it; a triggerBurst that
\* finds fewer inactive particles than the burst size (or none) activates only
\* those, raises no error and writes no other slot.
C2_BurstPoolBounded == [](C2_PoolShape) /\ [][C2_TriggerStep]_vars

\* a triggerBurst that found a single inactive particle: the pool is full and
\* exactly one particle is fresh
C2_PartialBurst ==
    /\ op.name = "triggerBurst"
    /\ ActiveBursts = DOMAIN burstLife
    /\ Cardinality({ i \in DOMAIN burstLife : burstLife[i] = BurstLife }) = 1

C3_TriggerStep ==
    op'.name = "triggerBurst" =>
        /\ Cardinality(NewlyActive) = Min(burstSize, Cardinality(InactiveBursts))
        /\ \A i \in NewlyActive : burstLife'[i] = BurstLife /\ burstPos'[i] = op'.arg
        /\ \A i \in ActiveBursts :
              /\ burstLife'[i] = burstLife[i]
              /\ burstPos'[i] = burstPos[i]
              /\ burstVel'[i] = burstVel[i]

\* C3: one triggerBurst(origin) on a pool with k inactive particles newly
\* activates exactly min(burstSize, k) particles, each with lifetime 1.0 and
\* position origin; the particles already active keep lifetime, position and
\* velocity.
C3_BurstActivation == [][C3_TriggerStep]_vars

\* after a triggerBurst: a fresh particle at the origin of the call next to an
\* older active particle from a burst at another origin
C3_FreshBesideOlder ==
    /\ op.name = "triggerBurst"
    /\ \E i, j \in DOMAIN burstLife :
          /\ burstLife[i] = BurstLife /\ burstPos[i] = op.arg
          /\ burstLife[j] > 0 /\ burstLife[j] < BurstLife /\ burstPos[j] # op.arg

PathIndicesValid ==
    /\ \A i \in DOMAIN flowIdx : flowIdx[i] >= 0 /\ flowIdx[i] < Len(flowPaths)
    /\ \A i \in DOMAIN trails :
          trails[i].active => trails[i].pathIndex >= 0 /\ trails[i].pathIndex < Len(flowPaths)

\* C4 as stated: in every reachable state the path index of every flow particle
\* and of every active trail is an index of the current flow path list.
C4_IndicesAlwaysValid == psState = "live" => PathIndicesValid

\* C4: while the flow path list is non-empty, the path index of every flow
\* particle and of every active trail is an index of the list.
C4_IndicesValidWhileListed ==
    (psState = "live" /\ Len(flowPaths) > 0) => PathIndicesValid

\* an update on a listed network in which a trail was activated on the last path
C4_TrailOnLastPath ==
    /\ op.name = "update"
    /\ Len(flowPaths) > 0
    /\ \E i \in DOMAIN trails :
          trails[i].active /\ trails[i].pathIndex = Len(flowPaths) - 1

\* C5 as stated: with an empty flow path list, constructing the particle system
\* and every later update or triggerBurst completes without raising an error.
C5_EmptyListNeverThrows ==
    (Len(flowPaths) = 0 /\ op.name \in {"construct", "update", "triggerBurst"}) => ~err

\* the part of C5 the code keeps: an update on an empty list moves no flow particle
C5_UpdateNoOp ==
    [][(op'.name = "update" /\ Len(flowPaths') = 0) => flowPos' = flowPos]_vars

(***************************************************************************)
(* Claims about the application start-up.                                  *)
(***************************************************************************)
InitOver == appPhase \notin {"start", "network"}

C7_TriggerStep ==
    op'.name = "triggerPulse" =>
        LET n    == Len(pulseWaves)
            kept == IF n >= maxPulseWaves THEN SubSeq(pulseWaves, 2, n) ELSE pulseWaves
        IN  /\ Len(pulseWaves') = Len(kept) + 1
            /\ SubSeq(pulseWaves', 1, Len(kept)) = kept
            /\ pulseWaves'[Len(kept) + 1].radius = 0
            /\ pulseWaves'[Len(kept) + 1].origin = op'.arg
            /\ n >= maxPulseWaves =>
                  \A i \in 2..n : pulseWaves[1].id < pulseWaves[i].id

C7_UpdateStep ==
    op'.name = "netUpdate" =>
        \A i, j \in DOMAIN pulseWaves' : i < j => pulseWaves'[i].id < pulseWaves'[j].id

\* C7: under any sequence of triggerPulse and update the list never holds more
\* than maxPulseWaves waves; a triggerPulse at capacity removes exactly the wave
\* triggered earliest and appends the new wave with radius 0, the other waves
\* and their order unchanged.
C7_PulseListBounded ==
    [](Len(pulseWaves) <= maxPulseWaves) /\ [][C7_TriggerStep /\ C7_UpdateStep]_vars

\* a triggerPulse at capacity has evicted the first wave, after an update
C7_Evicted ==
    /\ op.name = "triggerPulse"
    /\ Len(pulseWaves) = maxPulseWaves
    /\ pulseWaves[1].id = 2
    /\ pulseWaves[1].age > 0

\* C8 as stated: a wave from triggerPulse has life 3 and speed 8; after updates
\* summing to 1.5 s its radius is 12 and its intensity 0.5; once the updates sum
\* to 3 s or more it is no longer in the list.
C8_WaveLivesThreeSeconds ==
    \A i \in DOMAIN pulseWaves :
        LET w == pulseWaves[i]
        IN  /\ (w.age = 0 /\ w.radius = 0) => (w.speed = 8 /\ w.life + w.age = 3 * 20)
            /\ w.age = 30 => (w.radius = 12 * 20 /\ w.intensity = 30)
            /\ w.age < 3 * 20

\* C8: a wave from triggerPulse has life 4 and speed 8; after updates summing
\* to 1.5 s its radius is 12 and its intensity is the remaining life / 3 =
\* 2.5 / 3; once the updates sum to 4 s or more it is no longer in the list.
C8_WaveLivesFourSeconds ==
    \A i \in DOMAIN pulseWaves :
        LET w == pulseWaves[i]
        IN  /\ w.speed = 8
            /\ w.life + w.age = 4 * 20
            /\ w.radius = 8 * w.age
            /\ w.age = 30 => (w.radius = 12 * 20 /\ w.intensity = 50)
            /\ w.age > 0 => w.intensity = w.life
            /\ w.age < 4 * 20

\* a wave that has been updated for 1.5 s
C8_HalfwayWave ==
    \E i \in DOMAIN pulseWaves :
        /\ pulseWaves[i].age = 30
        /\ pulseWaves[i].radius = 12 * 20
        /\ pulseWaves[i].intensity = 50

(***************************************************************************)
(* Claims about the flow path list.                                        *)
(***************************************************************************)
BoundaryIndices == { i \in DOMAIN flowPaths : flowPaths[i].isMain = "true" }
StructuralIndices == { i \in DOMAIN flowPaths : flowPaths[i].isMain # "true" }

\* C9 as stated: after init every boundary path has a smaller index than every
\* structural path.
C9_BoundaryFirst ==
    netInited => \A b \in BoundaryIndices, e \in StructuralIndices : b < e

\* C9: after init every structural path (one per graph edge) has a smaller
\* index than every boundary path (one per octagon side).
C9_StructuralFirst ==
    netInited =>
        /\ Cardinality(BoundaryIndices) = OctagonSides
        /\ \A b \in BoundaryIndices, e \in StructuralIndices : e < b

\* a built list that holds paths of both kinds
C9_BothKinds ==
    /\ netInited
    /\ Cardinality(StructuralIndices) = 5
    /\ Cardinality(BoundaryIndices) = OctagonSides

\* C10: every flow path's curve evaluated at t = 0 is the path's start and at
\* t = 1 its end, also after update calls have moved the nodes.
C10_CurveEndpoints ==
    \A i \in DOMAIN flowPaths :
        /\ getPoint(flowPaths[i].curve, 0) = flowPaths[i].start
        /\ getPoint(flowPaths[i].curve, 2) = flowPaths[i].end

\* an update has moved the nodes of a built graph away from where the curves start
C10_NodesMoved ==
    /\ op.name = "netUpdate"
    /\ Len(flowPaths) > OctagonSides
    /\ \E i \in DOMAIN nodes : nodes[i].position # nodePositions[i]
    /\ \E i \in DOMAIN flowPaths :
          flowPaths[i].isMain # "true" /\ flowPaths[i].curve[2] # LerpHalf(flowPaths[i].start, flowPaths[i].end)

(***************************************************************************)
(* Claims about parameter updates and pool capacities.                     *)
(***************************************************************************)
ParamsCalls == { "updateParams", "appUpdateParams" }

Geometry ==
    << nodes, nodePositions, edges, flowPaths, flowIdx, flowProg, flowSpeed, flowPos,
       trails, trailBufPos, trailAlpha, burstLife, burstPos, burstVel, ambientPhase >>

C11_ParamsStep ==
    op'.name \in ParamsCalls =>
        /\ Geometry' = Geometry
        /\ (op.name = op'.name /\ op.arg = op'.arg) =>
              << netVars, psVars, sceneObjs, appVars, budget, err >>' =
              << netVars, psVars, sceneObjs, appVars, budget, err >>

\* C11: updateParams, on the network, on the particle system or through the
\* application, leaves nodes, node positions, flow paths and the particle
\* pools as they were, and a second call with the same config changes nothing.
C11_ParamsKeepGeometry == [][C11_ParamsStep]_vars

\* the application has passed on a config with another particleCount and the
\* pools and the graph are still those built at start-up
C11_ConfigChanged ==
    /\ op.name = "appUpdateParams"
    /\ psParams = op.arg
    /\ netParams = op.arg
    /\ psParams.particleCount # AppParams.particleCount
    /\ Len(flowProg) = FlowCount(AppParams.particleCount)
    /\ Len(nodes) > 0

\* capacity of the four pools
Capacity ==
    [ flow    |-> << Len(flowIdx), Len(flowProg), Len(flowSpeed), Len(flowPos) >>,
      ambient |-> Len(ambientPhase),
      trail   |-> << Len(trails), Len(trailBufPos), Len(trailAlpha),
                     { Len(trailBufPos[i]) : i \in DOMAIN trailBufPos } >>,
      burst   |-> << Len(burstLife), Len(burstPos), Len(burstVel) >> ]

\* the capacity a construction with particleCount gives
Constructed(particleCount) ==
    LET n == FlowCount(particleCount)
    IN  [ flow    |-> << n, n, n, n >>,
          ambient |-> AmbientCount(particleCount),
          trail   |-> << trailCount, trailCount, trailCount, { trailLength } >>,
          burst   |-> << burstCount, burstCount, burstCount >> ]

C12_PoolStep ==
    /\ (op'.name = "construct" /\ ~err') => Capacity' = Constructed(op'.arg)
    /\ op'.name \in { "update", "triggerBurst", "updateParams" } => Capacity' = Capacity

\* C12: the capacity of the flow, ambient, trail and burst pools is set by the
\* constructor and stays the same under update, triggerBurst and updateParams,
\* also when updateParams brings another particleCount.
C12_CapacityFixed == [][C12_PoolStep]_vars

\* updateParams has asked for fewer particles than the pools were built for
C12_SmallerCount ==
    /\ op.name = "updateParams"
    /\ op.arg.particleCount = 0
    /\ Capacity = Constructed(5)
    /\ Len(ambientPhase) > 0
    /\ \E i \in DOMAIN burstLife : burstLife[i] > 0

(***************************************************************************)
(* Claims about node generation.                                           *)
(***************************************************************************)
\* the target node count of the network that was built
Target == nodeCount(netParams.particleCount)

\* C13: for a target node count n >= 1 the build emits at least 1 and at most n
\* nodes.
C13_AtMostTarget ==
    (netInited /\ Target >= 1) => (1 <= Len(nodes) /\ Len(nodes) <= Target)

\* C14: with a target node count of 0 or 1 the build creates no structural edge:
\* no edge and no structural flow path.
C14_NoEdgeBelowTwo ==
    (netInited /\ Target \in {0, 1}) => (edges = << >> /\ StructuralIndices = {})

\* C15: no two emitted nodes have x and y both closer than the dedup precision
\* 1e-3.
C15_NodesApart ==
    \A i, j \in DOMAIN nodes :
        i < j => ~ /\ Abs(nodes[i].position[1] - nodes[j].position[1]) < 10
                   /\ Abs(nodes[i].position[2] - nodes[j].position[2]) < 10

(***************************************************************************)
(* Claims about the frame loop and the burst lifetimes.                    *)
(***************************************************************************)
\* C16: the deltaTime the animation loop hands to NeuralNetwork.update and
\* ParticleSystem.update is at least 0 and at most 0.1 s, also on the first
\* frame after a pause or a long gap between frames.
C16_DeltaClamped ==
    op.name = "animate" => (0 <= op.arg /\ op.arg <= MaxDelta)

\* the first frame after a resume: the clock reading spans the paused frames
\* and a minute in a hidden tab, and the updates got 0.1 s
C16_LongGapClamped ==
    /\ op.name = "animate"
    /\ op.raw > 1200
    /\ op.arg = MaxDelta

C17_DecayStep ==
    /\ op'.name = "update" =>
          \A i \in DOMAIN burstLife :
              burstLife'[i] = IF burstLife[i] > 0
                              THEN Max(0, burstLife[i] - op'.arg * BurstDecay)
                              ELSE 0
    /\ \A i \in DOMAIN burstLife' : 0 <= burstLife'[i] /\ burstLife'[i] <= BurstLife

\* C17: an update with deltaTime dt changes the lifetime of an active burst
\* particle to max(0, lifetime - 2 dt) and leaves an inactive one at 0; a lifetime
\* is always between 0 and 1.
C17_LifetimeDecay == [][C17_DecayStep]_vars

\* an update has reset a lifetime that fell below 0, beside a slot that was
\* never activated
C17_ClampedAtZero ==
    /\ op.name = "update"
    /\ op.clamped # {}
    /\ \A i \in op.clamped : burstLife[i] = 0
    /\ \E j \in DOMAIN burstLife : burstVel[j] = Zero3 /\ burstLife[j] = 0

\* C18: an activated burst particle is inactive again after finitely many
\* updates with a positive deltaTime, a pool whose slots are all active gets
\* room for a full burst again, and a triggerBurst then takes such slots anew.
C18_BurstsReturn ==
    /\ \A i \in 1..burstCount :
          (i \in DOMAIN burstLife /\ burstLife[i] > 0) ~>
          (i \in DOMAIN burstLife /\ burstLife[i] = 0)
    /\ (psState = "live" /\ ActiveBursts = DOMAIN burstLife) ~>
       (Cardinality(InactiveBursts) >= burstSize)
    /\ [][(op'.name = "triggerBurst" /\ Cardinality(InactiveBursts) >= burstSize)
             => Cardinality(NewlyActive) = burstSize]_vars

\* every slot of the pool has been used, all have decayed, and the burst just
\* triggered is a full one
C18_FullBurstAgain ==
    /\ op.name = "triggerBurst"
    /\ burstLife # << >>
    /\ \A i \in DOMAIN burstVel : burstVel[i] # Zero3
    /\ Cardinality({ i \in DOMAIN burstLife : burstLife[i] = BurstLife }) = burstSize
    /\ \A i \in DOMAIN burstLife : burstLife[i] \in {0, BurstLife}

(***************************************************************************)
(* Claims about the life of a pulse wave.                                  *)
(***************************************************************************)
\* the wave with trigger number id is in the list
Listed(id) == \E i \in DOMAIN pulseWaves : pulseWaves[i].id = id

C19_WaveStep ==
    /\ \A i \in DOMAIN pulseWaves, j \in DOMAIN pulseWaves' :
          pulseWaves[i].id = pulseWaves'[j].id =>
              /\ pulseWaves'[j].radius >= pulseWaves[i].radius
              /\ pulseWaves'[j].intensity <= pulseWaves[i].intensity
    /\ \A j \in DOMAIN pulseWaves' : pulseWaves'[j].intensity >= 0

\* C19: while a pulse wave stays in the list, over updates with deltaTime >= 0,
\* its radius never decreases, its intensity never increases from the value it
\* was triggered with, and its intensity is never negative.
C19_WaveMonotone == [][C19_WaveStep]_vars

\* a wave that has grown and faded over several updates, one of them with
\* deltaTime 0
C19_GrownAndFaded ==
    /\ op.name = "netUpdate"
    /\ op.arg = 0
    /\ \E i \in DOMAIN pulseWaves :
          /\ pulseWaves[i].age >= 2 * MaxDelta
          /\ pulseWaves[i].radius = pulseWaves[i].speed * pulseWaves[i].age
          /\ pulseWaves[i].intensity < PulseLife
          /\ pulseWaves[i].intensity > 0

\* C20: after an update no wave with life <= 0 is left in the list; with updates of
\* positive deltaTime coming again and again every triggered wave leaves the
\* list, and the list becomes empty once no new pulse is triggered.
C20_WavesExpire ==
    /\ [](op.name = "netUpdate" => \A i \in DOMAIN pulseWaves : pulseWaves[i].life > 0)
    /\ \A id \in 1..MaxLivePulses : Listed(id) ~> ~Listed(id)
    /\ (pulseWaves # << >>) ~> (pulseWaves = << >>)

\* the list is empty again after every pulse of the run was triggered and the
\* last update removed a wave at the end of its life
C20_ListEmptied ==
    /\ op.name = "netUpdate"
    /\ op.arg > 0
    /\ pulseSeq = MaxLivePulses
    /\ budget.pulses = 0
    /\ pulseWaves = << >>

(***************************************************************************)
(* Claims about the derived paths and the edge set.                        *)
(***************************************************************************)
\* C21 as stated: every structural path is flagged isMain = false.
C21_StructuralFlaggedFalse ==
    netInited => \A k \in StructuralIndices : flowPaths[k].isMain = "false"

\* C21: the list holds one path per structural edge, from the edge's start to
\* its end and without an isMain flag, then one path per octagon side i, from
\* vertex i to vertex (i + 1) mod 8 and flagged isMain = true, and nothing else.
C21_PathsDerived ==
    netInited =>
        /\ Len(flowPaths) = Len(edges) + OctagonSides
        /\ \A k \in DOMAIN edges :
              /\ flowPaths[k].isMain = "undefined"
              /\ flowPaths[k].curve[1] = edges[k].start
              /\ flowPaths[k].curve[3] = edges[k].end
        /\ \A i \in 0..(OctagonSides - 1) :
              LET path == flowPaths[Len(edges) + i + 1]
              IN  /\ path.isMain = "true"
                  /\ path.curve[1] = octagonVertices[i + 1]
                  /\ path.curve[3] = octagonVertices[((i + 1) % OctagonSides) + 1]

\* a build of two triangles: five edges, thirteen paths
C21_FiveEdges ==
    /\ netInited
    /\ Len(edges) = 5
    /\ Len(flowPaths) = 5 + OctagonSides

\* the sides of the triangles of a triangle list, as unordered pairs of point indices
Sides(triangles) ==
    { { triangles[3 * t + j + 1], triangles[3 * t + ((j + 1) % 3) + 1] } :
        t \in 0..((Len(triangles) \div 3) - 1), j \in 0..2 }

\* C22: the structural edges created from a triangle list are the sides of its
\* triangles, each unordered pair of point indices exactly once: none twice in
\* either orientation, none missing.
C22_EdgesAreSides ==
    (op.name = "netInit" /\ ~netDisposed) =>
        LET points == op.arg.points
            sides  == Sides(op.arg.triangles)
        IN  /\ Len(edges) = Cardinality(sides)
            /\ \E f \in [ DOMAIN edges -> sides ] :
                  /\ \A k, l \in DOMAIN edges : k # l => f[k] # f[l]
                  /\ \A k \in DOMAIN edges :
                        \E a, b \in f[k] :
                            /\ a < b
                            /\ edges[k].start = << points[a + 1][1], points[a + 1][2], 0 >>
                            /\ edges[k].end   = << points[b + 1][1], points[b + 1][2], 0 >>

\* two triangles that list their common side in opposite orientations gave
\* five edges, not six
C22_SharedSideOnce ==
    /\ op.name = "netInit"
    /\ Len(op.arg.triangles) = 6
    /\ Cardinality(Sides(op.arg.triangles)) = 5
    /\ Len(edges) = 5
    /\ \E k, l \in 0..5 :
          /\ k # l
          /\ orderedSide(op.arg.triangles, k)[1] = orderedSide(op.arg.triangles, l)[2]
          /\ orderedSide(op.arg.triangles, k)[2] = orderedSide(op.arg.triangles, l)[1]

(***************************************************************************)
(* Claims about the order of start-up and frames, and about pausing.       *)
(***************************************************************************)
C23_FrameStep ==
    /\ op'.name = "animate" => (netInited /\ psState = "live" /\ appPhase = "running")
    /\ appPhase = "error" => (appPhase' = "error" /\ op'.name # "animate")

\* C23: a frame's updates run only after the network's init has completed and
\* the particle system has been constructed; once a step of init() has failed
\* the error state is kept and no update runs.
C23_UpdatesAfterInit ==
    /\ [][C23_FrameStep]_vars
    /\ [](~InitOver => op.name \notin { "animate", "skipFrame" })
    /\ [](appPhase = "error" => (err /\ psState = "none"))

\* a frame has run on a built network and a live particle system
C23_FirstFrame ==
    /\ op.name = "animate"
    /\ netInited
    /\ Len(nodes) > 0
    /\ psState = "live"
    /\ budget.ticks = MaxAppTicks - 1

\* C28: once a 'pause' message has been handled, no frame runs its updates
\* until a 'resume' message has been handled, whatever visibility changes
\* happen in between.
C28_PausedUntilResume == op.name = "animate" => ~hostPaused

(***************************************************************************)
(* Claims about the trails.                                                *)
(***************************************************************************)
\* the trails that an update has taken past the end of their path
Ended == { i \in DOMAIN trails : ~trails[i].active /\ trails[i].progress > ProgressOne }

\* C24: a trail whose progress exceeds 1 in an update is inactive after it, with
\* every ring position reset and every alpha slot 0; a trail activated again
\* holds no position sampled from its previous path.
C24_TrailCleared ==
    /\ \A i \in Ended :
          /\ \A k \in 1..trailLength : trails[i].positions[k] = ZeroPt
          /\ \A k \in 1..trailLength : trailAlpha[i][k] = 0
    /\ \A i \in DOMAIN trails :
          trails[i].active =>
             \A k \in 1..trailLength :
                trails[i].positions[k].path \in { -1, trails[i].pathIndex }

C25_RingStep ==
    op'.name = "update" =>
       \A i \in DOMAIN trails' :
          (/\ i \in DOMAIN trails
           /\ trails'[i].active
           /\ trails'[i].pathIndex < Len(flowPaths))
          => /\ trails'[i].positions[1] = Pt(trails'[i].pathIndex, trails'[i].progress)
             /\ \A k \in 2..trailLength :
                   trails'[i].positions[k] = trails[i].positions[k - 1]
             /\ trailBufPos'[i] = trails'[i].positions

\* C25: an update of an active trail with progress <= 1 and a valid path puts
\* the new sample in ring slot 0 and the old slot i-1 in every slot i >= 1; the
\* ring keeps trailLength slots in every state.
C25_RingShift ==
    /\ [][C25_RingStep]_vars
    /\ [](\A i \in DOMAIN trails : Len(trails[i].positions) = trailLength)

\* a trail whose second sample has pushed its first one back by a slot
C25_TwoSamples ==
    /\ op.name = "update"
    /\ \E i \in DOMAIN trails :
          /\ trails[i].active
          /\ trails[i].positions[1].path = trails[i].pathIndex
          /\ trails[i].positions[2].path = trails[i].pathIndex
          /\ trails[i].positions[2].at < trails[i].positions[1].at

(***************************************************************************)
(* Claims about the nodes and the build of the graph.                      *)
(***************************************************************************)
\* C26: after any number of updates every node is within the floating offset of
\* the position it was created at: at most 0.03 away in x, 0.05 in y, and at
\* the same z.
C26_NodesNearCreation ==
    \A i \in DOMAIN nodes :
       i \in DOMAIN nodePositions =>
          /\ nodes[i].position[1] - nodePositions[i][1] \in -FloatX..FloatX
          /\ nodes[i].position[2] - nodePositions[i][2] \in -FloatY..FloatY
          /\ nodes[i].position[3] = nodePositions[i][3]

\* the collections are those of one build
SingleBuild ==
    \E inp \in AppBuildInputs :
       LET built == createInternalNetwork(inp)
       IN  /\ Len(nodes) = Len(built.nodes)
           /\ nodePositions = built.nodePositions
           /\ edges = built.edges
           /\ flowPaths = InitFlowPaths(built.flowPaths, createFlowPaths)

C27_BuildStep ==
    /\ op'.name = "appCreateNetwork" => ~netInited
    /\ netInited =>
          /\ Len(nodes') = Len(nodes)
          /\ nodePositions' = nodePositions
          /\ edges' = edges
          /\ flowPaths' = flowPaths

C29_SceneCleared ==
    psDisposed => sceneObjs \cap { "flow", "ambient", "trail", "burst" } = {}

\* C30: once the resource manager's dispose has run the texture cache is empty
\* and stays empty, however the callbacks of loads started before dispose are
\* interleaved with it.
C30_CacheStaysEmpty ==
    res.disposed => \A n \in TextureNames : res.textures[n] = "none"

====
